---- MODULE Spec2Model ----
(***************************************************************************)
(* Failed-event retry queue of abershum_elis_sync (Odoo -> OpenELIS).      *)
(*                                                                         *)
(* The store of openelis.failed.event rows, the admission                  *)
(* (create_or_update_failed_event), the single-event retry (_retry_sync),  *)
(* the scheduled cycle (cron_retry_failed_events), the operator actions    *)
(* and the first-attempt syncs that feed the queue.                        *)
(*                                                                         *)
(* Time is counted in minutes.  The clock is read once per attempt: one    *)
(* delivery attempt (at most a 30 s HTTP call) is shorter than the         *)
(* granularity of the clock.  The LIS answer to a delivery is an input     *)
(* drawn from Outcomes.                                                     *)
(***************************************************************************)
EXTENDS Integers, Sequences, FiniteSets, TLC

VARIABLES
    now,        \* fields.Datetime.now(), minutes
    partner,    \* res.partner rows: [live, ref, data]
    order,      \* sale.order rows: [live, lines]
    product,    \* product.template rows: [live, data]
    cfg,        \* ir.config_parameter: [sync, patient, url]
    lisUp,      \* TRUE once the LIS accepts every delivery
    events,     \* openelis.failed.event rows, by database id
    nextId,     \* next database id of openelis.failed.event
    run,        \* position of the running cycle / batch retry
    ops,        \* operations started so far
    born,       \* history: sequence number and create date given to each id
    last,       \* history: the last operation and what it did
    lis,        \* the body the LIS accepted last, by event type and record
    jobs        \* position of each concurrent worker

vars == <<now, partner, order, product, cfg, lisUp, events, nextId, run, ops,
          born, last, lis, jobs>>

----------------------------------------------------------------------------
(* Bounds of the model *)

\* operations (business writes, operator actions, cycles, clock ticks) a
\* behaviour runs through
MaxOps == 4

\* the clock of FairSpec stops after this many backoff units
MaxTicks == 1

\* FairSpec executes at most this many business operations
MaxFair == 2

\* the batch size of a cycle: limit=50 of cron_retry_failed_events, scaled
\* down so that a cycle with more due events than the limit occurs
BatchLimit == 2

(* Program constants *)

\* timedelta(minutes=15 * ...) of _retry_sync
BackoffMinutes == 15
\* False in a Many2one column
NoId == 0

Partners == {1, 2}
Orders == {1, 2}
Products == {1, 2}
Refs == {"A", "B"}
\* '' / False in partner.ref
NoRef == ""
\* an unset Datetime column holds no value, a set one holds one
NoDate == {}

\* What the LIS does with one POST:
\*   ok        HTTP 200, body {"status": "success"} or not JSON
\*   rejected  HTTP 200, JSON body with another status
\*   http      a status other than 200
\*   conn      requests.exceptions.ConnectionError, Timeout or another
\*             RequestException: the POST raised
Outcomes == {"ok", "rejected", "http", "conn"}
\* no POST was made
NoCall == "none"

Unresolved == {"pending", "retrying", "failed"}

Max(a, b) == IF a >= b THEN a ELSE b

----------------------------------------------------------------------------
(* The store: st = [ev |-> rows by id, nid |-> next id] *)

Ids(st) == DOMAIN st.ev

Put(st, e) ==
    [st EXCEPT !.ev = [i \in DOMAIN st.ev \cup {e.id} |->
                          IF i = e.id THEN e ELSE st.ev[i]]]

Unlink(st, S) ==
    [st EXCEPT !.ev = [i \in DOMAIN st.ev \ S |-> st.ev[i]]]

\* _order = 'sequence_number asc, create_date asc'; the database id breaks
\* the remaining ties
OrderBefore(a, b) ==
    \/ a.sequence_number < b.sequence_number
    \/ /\ a.sequence_number = b.sequence_number
       /\ \/ a.create_date < b.create_date
          \/ a.create_date = b.create_date /\ a.id < b.id

First(ev, S) == CHOOSE i \in S : \A j \in S \ {i} : OrderBefore(ev[i], ev[j])

RECURSIVE Sorted(_, _)
Sorted(ev, S) ==
    IF S = {} THEN <<>>
    ELSE LET i == First(ev, S) IN <<i>> \o Sorted(ev, S \ {i})

Take(s, n) == SubSeq(s, 1, IF Len(s) < n THEN Len(s) ELSE n)

Range(s) == {s[i] : i \in DOMAIN s}

----------------------------------------------------------------------------
(* create_or_update_failed_event *)

\* the dedup domain without the states a retry leaves behind
DedupMatchPending(e, event_type, partner_id, partner_ref, sale_order_id) ==
    /\ e.event_type = event_type
    /\ e.state = "pending"
    /\ IF event_type = "patient"
       THEN IF partner_ref # NoRef THEN e.partner_ref = partner_ref
            ELSE IF partner_id # NoId THEN e.partner_id = partner_id
            ELSE TRUE
       ELSE IF event_type = "test_order"
       THEN IF sale_order_id # NoId THEN e.sale_order_id = sale_order_id
            ELSE TRUE
       ELSE TRUE

\* the dedup domain
DedupMatch(e, event_type, partner_id, partner_ref, sale_order_id) ==
    /\ e.event_type = event_type
    /\ e.state \in Unresolved
    /\ IF event_type = "patient"
       THEN IF partner_ref # NoRef THEN e.partner_ref = partner_ref
            ELSE IF partner_id # NoId THEN e.partner_id = partner_id
            ELSE TRUE
       ELSE IF event_type = "test_order"
       THEN IF sale_order_id # NoId THEN e.sale_order_id = sale_order_id
            ELSE TRUE
       ELSE TRUE

Existing(st, event_type, partner_id, partner_ref, sale_order_id) ==
    {i \in Ids(st) :
        DedupMatch(st.ev[i], event_type, partner_id, partner_ref, sale_order_id)}

\* numbering by the count of the rows
_get_next_sequence_number_count(st) ==
    Cardinality(Ids(st)) + 1

_get_next_sequence_number(st) ==
    IF Ids(st) = {} THEN 1
    ELSE LET m == CHOOSE i \in Ids(st) :
                    \A j \in Ids(st) :
                        st.ev[j].sequence_number <= st.ev[i].sequence_number
         IN IF st.ev[m].sequence_number # 0
            THEN st.ev[m].sequence_number + 1
            ELSE 1

\* update_vals that also takes a new number
UpdateValsRenumber(e, payload, error_message, error_type, partner_id, partner_ref, sale_order_id) ==
    [e EXCEPT !.payload = payload,
              !.error_message = error_message,
              !.error_type = error_type,
              !.retry_count = 0,
              !.state = "pending",
              !.sequence_number = @ + 1,
              !.next_retry_date = NoDate,
              !.last_retry_date = NoDate,
              !.partner_id = IF partner_id # NoId THEN partner_id ELSE @,
              !.partner_ref = IF partner_ref # NoRef THEN partner_ref ELSE @,
              !.sale_order_id = IF sale_order_id # NoId THEN sale_order_id ELSE @]

\* update_vals that leaves the retry bookkeeping of the row alone
UpdateValsKeep(e, payload, error_message, error_type, partner_id, partner_ref, sale_order_id) ==
    [e EXCEPT !.payload = payload,
              !.error_message = error_message,
              !.error_type = error_type,
              !.state = "pending",
              !.partner_id = IF partner_id # NoId THEN partner_id ELSE @,
              !.partner_ref = IF partner_ref # NoRef THEN partner_ref ELSE @,
              !.sale_order_id = IF sale_order_id # NoId THEN sale_order_id ELSE @]

UpdateVals(e, payload, error_message, error_type, partner_id, partner_ref, sale_order_id) ==
    [e EXCEPT !.payload = payload,
              !.error_message = error_message,
              !.error_type = error_type,
              !.retry_count = 0,
              !.state = "pending",
              !.next_retry_date = NoDate,
              !.last_retry_date = NoDate,
              !.partner_id = IF partner_id # NoId THEN partner_id ELSE @,
              !.partner_ref = IF partner_ref # NoRef THEN partner_ref ELSE @,
              !.sale_order_id = IF sale_order_id # NoId THEN sale_order_id ELSE @]

CreateVals(st, t, event_type, payload, error_message, error_type, partner_id, partner_ref, sale_order_id) ==
    [id |-> st.nid,
     event_type |-> event_type,
     payload |-> payload,
     error_message |-> error_message,
     error_type |-> error_type,
     partner_id |-> partner_id,
     partner_ref |-> partner_ref,
     sale_order_id |-> sale_order_id,
     state |-> "pending",
     retry_count |-> 0,
     sequence_number |-> _get_next_sequence_number(st),
     last_retry_date |-> NoDate,
     next_retry_date |-> NoDate,
     create_date |-> t]

create_or_update_failed_event(st, t, event_type, payload, error_message, error_type, partner_id, partner_ref, sale_order_id) ==
    LET found == Existing(st, event_type, partner_id, partner_ref, sale_order_id)
    IN IF found # {}
       THEN LET i == First(st.ev, found)
            IN Put(st, UpdateVals(st.ev[i], payload, error_message, error_type,
                                  partner_id, partner_ref, sale_order_id))
       ELSE [Put(st, CreateVals(st, t, event_type, payload, error_message,
                                error_type, partner_id, partner_ref,
                                sale_order_id))
             EXCEPT !.nid = st.nid + 1]

----------------------------------------------------------------------------
(* Payloads, built from the subject's row.  id is the subject id carried   *)
(* in the body ('id' of a lab test, 'sale_order_id' of a test order), ref  *)
(* the patient reference, data the remaining fields of the body.           *)

PatientPayload(row) == [id |-> NoId, ref |-> row.ref, data |-> row.data]
OrderPayload(o, row) == [id |-> o, ref |-> NoRef, data |-> row.lines]
LabPayload(pr, row) == [id |-> pr, ref |-> NoRef, data |-> row.data]

\* no request body: nothing was posted
NoPayload == [id |-> NoId, ref |-> NoRef, data |-> 0]

\* error_message / error_type recorded for a failed POST
ErrorMessage(out) ==
    CASE out = "http" -> "HTTP 500"
      [] out = "conn" -> "Connection refused"
      [] OTHER -> "Unknown error"

ErrorType(out) ==
    CASE out = "http" -> "HTTP 500"
      [] out = "conn" -> "ConnectionError"
      [] OTHER -> "Exception"

\* history: what an admission with these arguments does to the store, and
\* the row it found
NoRow == [id |-> NoId]

NoAdmission == [kind |-> "none", id |-> NoId, before |-> NoRow]

Admission(st, event_type, partner_id, partner_ref, sale_order_id) ==
    LET found == Existing(st, event_type, partner_id, partner_ref, sale_order_id)
    IN IF found # {}
       THEN [kind |-> "updated", id |-> First(st.ev, found),
             before |-> st.ev[First(st.ev, found)]]
       ELSE [kind |-> "created", id |-> st.nid, before |-> NoRow]

----------------------------------------------------------------------------
(* ResPartner._sync_patient_to_openelis: no return statement, so the       *)
(* caller always receives None.  Result: [st, call, adm, sent]; sent is    *)
(* the body posted.                                                        *)

_sync_patient_to_openelis(st, t, p, row, out) ==
    IF ~cfg.patient \/ ~cfg.url
    THEN [st |-> st, call |-> NoCall, adm |-> NoAdmission, sent |-> NoPayload]
    ELSE IF out \in {"ok", "rejected"}
    THEN [st |-> st, call |-> out, adm |-> NoAdmission,
          sent |-> PatientPayload(row)]
    ELSE [st |-> create_or_update_failed_event(
                    st, t, "patient", PatientPayload(row), ErrorMessage(out),
                    ErrorType(out), p, row.ref, NoId),
          call |-> out,
          adm |-> Admission(st, "patient", p, row.ref, NoId),
          sent |-> PatientPayload(row)]

(* OpenELISSyncService._call_openelis_api.  ctx_so is                      *)
(* env.context.get('sale_order_id').  After a ConnectionError or a Timeout *)
(* the method raises UserError, which both callers turn into an error      *)
(* status; after another status than 200 it returns the error status.     *)
(* Result: [st, status, message, call, adm, sent].                         *)

\* a call that on success removes the unresolved events of the subject
_call_openelis_api_resolving(st, t, payload, event_type, ctx_so, out) ==
    IF ~cfg.url
    THEN [st |-> st, status |-> "error", message |-> "API URL not configured",
          call |-> NoCall, adm |-> NoAdmission, sent |-> NoPayload]
    ELSE IF out = "ok"
    THEN [st |-> Unlink(st, Existing(st, event_type, NoId, NoRef,
                                     IF ctx_so # NoId THEN ctx_so
                                     ELSE payload.id)),
          status |-> "success", message |-> "Synced successfully",
          call |-> out, adm |-> NoAdmission, sent |-> payload]
    ELSE IF out = "rejected"
    THEN [st |-> st, status |-> "error", message |-> "Unknown error",
          call |-> out, adm |-> NoAdmission, sent |-> payload]
    ELSE [st |-> create_or_update_failed_event(
                    st, t, event_type, payload, ErrorMessage(out),
                    ErrorType(out), NoId, NoRef,
                    IF ctx_so # NoId THEN ctx_so ELSE payload.id),
          status |-> "error",
          message |-> ErrorMessage(out),
          call |-> out,
          adm |-> Admission(st, event_type, NoId, NoRef,
                            IF ctx_so # NoId THEN ctx_so ELSE payload.id),
          sent |-> payload]

_call_openelis_api(st, t, payload, event_type, ctx_so, out) ==
    IF ~cfg.url
    THEN [st |-> st, status |-> "error", message |-> "API URL not configured",
          call |-> NoCall, adm |-> NoAdmission, sent |-> NoPayload]
    ELSE IF out = "ok"
    THEN [st |-> st, status |-> "success", message |-> "Synced successfully",
          call |-> out, adm |-> NoAdmission, sent |-> payload]
    ELSE IF out = "rejected"
    THEN [st |-> st, status |-> "error", message |-> "Unknown error",
          call |-> out, adm |-> NoAdmission, sent |-> payload]
    ELSE LET sale_order_id ==
                 IF ctx_so # NoId THEN ctx_so
                 ELSE IF event_type = "test_order" THEN payload.id
                 ELSE NoId
         IN [st |-> create_or_update_failed_event(
                        st, t, event_type, payload, ErrorMessage(out),
                        ErrorType(out), NoId, NoRef, sale_order_id),
             status |-> "error",
             message |-> ErrorMessage(out),
             call |-> out,
             adm |-> Admission(st, event_type, NoId, NoRef, sale_order_id),
             sent |-> payload]

_is_sync_enabled == cfg.sync

Skipped(st, message) ==
    [st |-> st, status |-> "skipped", message |-> message,
     call |-> NoCall, adm |-> NoAdmission, sent |-> NoPayload]

\* row.lines = 0: the order has no lab test line
sync_test_order_to_openelis(st, t, o, row, out) ==
    IF ~_is_sync_enabled THEN Skipped(st, "OpenELIS sync is disabled")
    ELSE IF row.lines = 0 THEN Skipped(st, "No lab test products in order")
    ELSE _call_openelis_api(st, t, OrderPayload(o, row), "test_order", o, out)

\* row.data = 0: the product is neither a lab test nor a panel
sync_lab_test_to_openelis(st, t, pr, row, out) ==
    IF ~_is_sync_enabled THEN Skipped(st, "OpenELIS sync is disabled")
    ELSE IF row.data = 0 THEN Skipped(st, "Product is not a lab test or panel")
    ELSE _call_openelis_api(st, t, LabPayload(pr, row), "lab_test", NoId, out)

----------------------------------------------------------------------------
(* OpenELISFailedEvent._retry_sync *)

Fail(st, message) ==
    [st |-> st, good |-> FALSE, message |-> message,
     call |-> NoCall, adm |-> NoAdmission, sent |-> NoPayload]

\* after _sync_patient_to_openelis(partner), whose result (None) the retry
\* tests with `if not`: UserError whatever the LIS answered
PatientSynced(r) ==
    [st |-> r.st, good |-> FALSE,
     message |-> "Patient sync returned failure status.",
     call |-> r.call, adm |-> r.adm, sent |-> r.sent]

\* _("Retry failed: %s") % result.get('message', 'Unknown error')
RetryFailed(message) ==
    CASE message = "HTTP 500" -> "Retry failed: HTTP 500"
      [] message = "Connection refused" -> "Retry failed: Connection refused"
      [] message = "API URL not configured" ->
             "Retry failed: API URL not configured"
      [] message = "OpenELIS sync is disabled" ->
             "Retry failed: OpenELIS sync is disabled"
      [] message = "No lab test products in order" ->
             "Retry failed: No lab test products in order"
      [] message = "Product is not a lab test or panel" ->
             "Retry failed: Product is not a lab test or panel"
      [] OTHER -> "Retry failed: Unknown error"

\* a retry that takes a skipped sync for a delivered one
ServiceSyncedLenient(r) ==
    [st |-> r.st, good |-> r.status \in {"success", "skipped"},
     message |-> RetryFailed(r.message),
     call |-> r.call, adm |-> r.adm, sent |-> r.sent]

\* after a sync of the service: UserError unless status is success
ServiceSynced(r) ==
    [st |-> r.st, good |-> r.status = "success",
     message |-> RetryFailed(r.message),
     call |-> r.call, adm |-> r.adm, sent |-> r.sent]

\* a dispatch that posts the data of the stored payload again
RetryDispatchStored(st, t, e, out) ==
    IF e.event_type = "patient"
    THEN IF e.partner_id = NoId \/ ~partner[e.partner_id].live
         THEN Fail(st, "Partner not found for this event.")
         ELSE PatientSynced(_sync_patient_to_openelis(
                           st, t, e.partner_id,
                           [partner[e.partner_id] EXCEPT !.data = e.payload.data],
                           out))
    ELSE IF e.event_type = "test_order"
    THEN IF e.sale_order_id = NoId \/ ~order[e.sale_order_id].live
         THEN Fail(st, "Sale order not found for this event.")
         ELSE ServiceSynced(sync_test_order_to_openelis(
                           st, t, e.sale_order_id,
                           [order[e.sale_order_id] EXCEPT !.lines = e.payload.data],
                           out))
    ELSE IF e.event_type = "lab_test"
    THEN IF e.payload.id = NoId
         THEN Fail(st, "Product ID not found in payload.")
         ELSE IF ~product[e.payload.id].live
         THEN Fail(st, "Product not found")
         ELSE ServiceSynced(sync_lab_test_to_openelis(
                           st, t, e.payload.id,
                           [product[e.payload.id] EXCEPT !.data = e.payload.data],
                           out))
    ELSE Fail(st, "Retry logic missing for event type")

\* the try block up to the last sync call: [st, good, message, call, adm,
\* sent]; good = no exception raised
RetryDispatch(st, t, e, out) ==
    IF e.event_type = "patient"
    THEN IF e.partner_id = NoId \/ ~partner[e.partner_id].live
         THEN Fail(st, "Partner not found for this event.")
         ELSE PatientSynced(_sync_patient_to_openelis(
                           st, t, e.partner_id, partner[e.partner_id], out))
    ELSE IF e.event_type = "test_order"
    THEN IF e.sale_order_id = NoId \/ ~order[e.sale_order_id].live
         THEN Fail(st, "Sale order not found for this event.")
         ELSE ServiceSynced(sync_test_order_to_openelis(
                           st, t, e.sale_order_id, order[e.sale_order_id], out))
    ELSE IF e.event_type = "lab_test"
    THEN IF e.payload.id = NoId
         THEN Fail(st, "Product ID not found in payload.")
         ELSE IF ~product[e.payload.id].live
         THEN Fail(st, "Product not found")
         ELSE ServiceSynced(sync_lab_test_to_openelis(
                           st, t, e.payload.id, product[e.payload.id], out))
    ELSE Fail(st, "Retry logic missing for event type")

\* the first write of _retry_sync
MarkRetrying(e, t) ==
    [e EXCEPT !.state = "retrying",
              !.last_retry_date = {t},
              !.retry_count = @ + 1]

\* a backoff that does not grow
NextRetryFlat(t, retry_count) ==
    t + BackoffMinutes

\* next_retry of the except block
NextRetry(t, retry_count) ==
    t + BackoffMinutes * (IF retry_count # 0 THEN retry_count ELSE 1)

\* an except block that gives the event up after its second failure
MarkFailedGiveUp(e, t, message) ==
    [e EXCEPT !.state = IF e.retry_count >= 2 THEN "abandoned" ELSE "failed",
              !.error_message = message,
              !.error_type = "UserError",
              !.next_retry_date = {NextRetry(t, e.retry_count)}]

\* an except block that leaves the state as the first write set it
MarkFailedStuck(e, t, message) ==
    [e EXCEPT !.error_message = message,
              !.error_type = "UserError",
              !.next_retry_date = {NextRetry(t, e.retry_count)}]

\* the write of the except block; e is the row as it then is
MarkFailed(e, t, message) ==
    [e EXCEPT !.state = "failed",
              !.error_message = message,
              !.error_type = "UserError",
              !.next_retry_date = {NextRetry(t, e.retry_count)}]

\* the end of _retry_sync after the dispatch r: the success path or the
\* except block.  Result: [st, ok, call, adm, raised, sent, trail,
\* message]; ok is the returned value, message the error_message the
\* except block wrote, raised tells that the call ended in an exception
\* (MissingError on a deleted row: the write of the except block fails like
\* the one before it), trail lists the states written to the row, in order.
RetryEnd(r, t, e) ==
    LET reset == IF r.adm.kind = "updated" /\ r.adm.id = e.id
                 THEN <<"pending">> ELSE <<>>
    IN IF e.id \notin Ids(r.st)
       THEN [st |-> r.st, ok |-> FALSE, call |-> r.call, adm |-> r.adm,
             raised |-> TRUE, sent |-> r.sent, trail |-> <<>>,
             message |-> ""]
       ELSE IF r.good
       THEN [st |-> Unlink(r.st, {e.id}), ok |-> TRUE, call |-> r.call,
             adm |-> r.adm, raised |-> FALSE, sent |-> r.sent,
             trail |-> reset \o <<"success">>, message |-> ""]
       ELSE [st |-> Put(r.st, MarkFailed(r.st.ev[e.id], t, r.message)),
             ok |-> FALSE, call |-> r.call, adm |-> r.adm, raised |-> FALSE,
             sent |-> r.sent, trail |-> reset \o <<"failed">>,
             message |-> r.message]

\* _retry_sync after its first write; e is the row as the call holds it
_retry_tail(st, t, e, out) == RetryEnd(RetryDispatch(st, t, e, out), t, e)

\* the first write, in the trail
Entered(r) == [r EXCEPT !.trail = <<"retrying">> \o @]

\* Result: as _retry_tail
_retry_sync(st, t, id, out) ==
    IF id \notin Ids(st)
    THEN [st |-> st, ok |-> FALSE, call |-> NoCall, adm |-> NoAdmission,
          raised |-> TRUE, sent |-> NoPayload, trail |-> <<>>, message |-> ""]
    ELSE IF st.ev[id].state = "success"
    THEN [st |-> st, ok |-> TRUE, call |-> NoCall, adm |-> NoAdmission,
          raised |-> FALSE, sent |-> NoPayload, trail |-> <<>>, message |-> ""]
    ELSE Entered(_retry_tail(Put(st, MarkRetrying(st.ev[id], t)), t,
                             MarkRetrying(st.ev[id], t), out))

\* the result r of a retry of row id, with the failed row not rescheduled
Unscheduled(r, id) ==
    IF id \in Ids(r.st) /\ r.st.ev[id].state = "failed"
    THEN [r EXCEPT !.st = Put(r.st, [r.st.ev[id] EXCEPT
                                        !.next_retry_date = NoDate])]
    ELSE r

\* a manual retry that leaves the rescheduling to the cycle
RetryOneUnscheduled(st, t, id, out) ==
    IF id \in Ids(st) /\ st.ev[id].state = "success"
    THEN [st |-> st, ok |-> FALSE, call |-> NoCall, adm |-> NoAdmission,
          raised |-> TRUE, sent |-> NoPayload, trail |-> <<>>,
          message |-> "This event has already been successfully processed."]
    ELSE Unscheduled(_retry_sync(st, t, id, out), id)

\* action_retry on one record: a record in state success is refused with
\* UserError, any other goes to _retry_sync.  Result: as _retry_tail
RetryOne(st, t, id, out) ==
    IF id \in Ids(st) /\ st.ev[id].state = "success"
    THEN [st |-> st, ok |-> FALSE, call |-> NoCall, adm |-> NoAdmission,
          raised |-> TRUE, sent |-> NoPayload, trail |-> <<>>,
          message |-> "This event has already been successfully processed."]
    ELSE _retry_sync(st, t, id, out)

\* a mark-success that writes the state and keeps the row
MarkSuccessKeep(st, S) ==
    [st EXCEPT !.ev = [i \in DOMAIN st.ev |->
                          IF i \in S THEN [st.ev[i] EXCEPT !.state = "success"]
                          ELSE st.ev[i]]]

\* action_mark_success: write state success, then unlink
MarkSuccess(st, S) ==
    Unlink(st, S)

\* a delete that closes the gaps in the numbering of the rows that stay
DeleteRenumber(st, S) ==
    [st EXCEPT !.ev = [i \in DOMAIN st.ev \ S |->
                          [st.ev[i] EXCEPT !.sequence_number =
                              Cardinality({j \in DOMAIN st.ev \ S :
                                              j = i \/ OrderBefore(st.ev[j], st.ev[i])})]]]

\* action_delete: unlink
Delete(st, S) ==
    Unlink(st, S)

\* a domain without the condition on next_retry_date
DueAnyDate(e, t) ==
    e.state \in {"pending", "failed"}

\* the domain of cron_retry_failed_events
Due(e, t) ==
    /\ e.state \in {"pending", "failed"}
    /\ \/ \E d \in e.next_retry_date : d <= t
       \/ e.next_retry_date = NoDate

\* the search with the order reversed
events_to_retry_desc(st, t) ==
    LET s == Sorted(st.ev, {i \in Ids(st) : Due(st.ev[i], t)})
    IN Take([k \in DOMAIN s |-> s[Len(s) + 1 - k]], BatchLimit)

\* search(domain, limit=50, order='sequence_number asc, create_date asc')
events_to_retry(st, t) ==
    Take(Sorted(st.ev, {i \in Ids(st) : Due(st.ev[i], t)}), BatchLimit)

----------------------------------------------------------------------------
(* State *)

\* the concurrent workers: server processes that run a cycle, a manual
\* retry or a sync side by side
Workers == {1, 2}

\* a worker in _retry_sync holds one event of its batch: phase enter
\* before the first write, deliver after it; row is the record as the
\* worker read it.  A worker in create_or_update_failed_event holds vals.
NoJob ==
    [kind |-> "none", batch |-> <<>>, i |-> 0, phase |-> "",
     success_count |-> 0, log |-> <<>>, row |-> NoRow, vals |-> NoRow]

St == [ev |-> events, nid |-> nextId]

Idle ==
    [kind |-> "idle", batch |-> <<>>, i |-> 0, success_count |-> 0,
     log |-> <<>>]

\* history record of an operation; the fields an operation does not use
\* keep these values.  ids are the rows an operator action was called on
\* (for a retry: the rows the mark-success just before it was called on),
\* w is the worker, kind its job, message the
\* error_message a failed retry wrote, sel the records a batch retry was
\* called on, in the order of the call, was is the row a retry found before it touched it,
\* sent the body posted, trail the states the retry wrote to its row, log
\* the attempts of the cycle so far.
Op(name) ==
    [op |-> name, type |-> "", subj |-> NoId, id |-> NoId, ids |-> {},
     call |-> NoCall, ok |-> FALSE, raised |-> FALSE, adm |-> NoAdmission,
     was |-> NoRow, cut |-> 0, done |-> FALSE, success_count |-> 0,
     total |-> 0, sent |-> NoPayload, trail |-> <<>>, log |-> <<>>,
     w |-> 0, kind |-> "", message |-> "", sel |-> <<>>]

Init ==
    /\ now = 0
    /\ partner = [p \in Partners |->
                    [live |-> TRUE, ref |-> IF p = 1 THEN "A" ELSE "B", data |-> 0]]
    /\ order = [o \in Orders |-> [live |-> TRUE, lines |-> 1]]
    /\ product = [pr \in Products |-> [live |-> TRUE, data |-> 1]]
    /\ cfg = [sync |-> TRUE, patient |-> TRUE, url |-> TRUE]
    /\ lisUp = FALSE
    /\ events = <<>>
    /\ nextId = 1
    /\ run = Idle
    /\ ops = 0
    /\ born = <<>>
    /\ last = Op("init")
    /\ lis = [patient |-> [p \in Partners |-> PatientPayload(partner[p])],
              test_order |-> [o \in Orders |-> OrderPayload(o, order[o])],
              lab_test |-> [pr \in Products |-> LabPayload(pr, product[pr])]]
    /\ jobs = [w \in Workers |-> NoJob]

\* the LIS after a POST: a body it accepted replaces what it held
Accept(event_type, subj, r) ==
    lis' = IF r.call = "ok" THEN [lis EXCEPT ![event_type][subj] = r.sent]
           ELSE lis

\* the record a retry of row e syncs
RetrySubject(e) ==
    CASE e.event_type = "patient" -> e.partner_id
      [] e.event_type = "test_order" -> e.sale_order_id
      [] OTHER -> e.payload.id

\* an operation starts
Count == ops < MaxOps /\ ops' = ops + 1

\* the store after an operation; born records what each new row was given
Commit(st) ==
    /\ events' = st.ev
    /\ nextId' = st.nid
    /\ born' = [i \in 1..(st.nid - 1) |->
                  IF i \in DOMAIN born THEN born[i]
                  ELSE [sequence_number |-> st.ev[i].sequence_number,
                        create_date |-> st.ev[i].create_date]]

\* the answers drawn in the specifications below; conn takes the path of
\* http through the admission and differs in the recorded error only
Answers == {"ok", "rejected", "http"}

OutcomesNow == IF lisUp THEN {"ok"} ELSE Answers

Row(st, id) == IF id \in Ids(st) THEN st.ev[id] ELSE NoRow

----------------------------------------------------------------------------
(* First attempts: the business operations that trigger a sync *)

\* a business operation that raises when the delivery of its sync failed
CompletedUnlessFailed(r) ==
    [res |-> r.call \in {NoCall, "ok"}, raised |-> r.call \notin {NoCall, "ok"}]

\* the end of a business operation after its sync r: what the sync raised
\* was caught and logged, and the result of super() is returned
Completed(r) ==
    [res |-> TRUE, raised |-> FALSE]

\* ResPartner.write of a patient: ref or another relevant field is
\* written, then the patient is synced if it has a ref
PartnerWrite(p, row, out) ==
    /\ run.kind = "idle"
    /\ Count
    /\ partner[p].live /\ row.live
    /\ row.ref = partner[p].ref \/ row.data = partner[p].data
    /\ partner' = [partner EXCEPT ![p] = row]
    /\ IF row.ref # NoRef
       THEN LET r == _sync_patient_to_openelis(St, now, p, row, out)
            IN /\ Commit(r.st)
               /\ Accept("patient", p, r)
               /\ last' = [Op("sync") EXCEPT !.type = "patient", !.subj = p,
                                             !.call = r.call, !.adm = r.adm,
                                             !.sent = r.sent,
                                             !.ok = Completed(r).res,
                                             !.raised = Completed(r).raised]
       ELSE /\ Commit(St)
            /\ lis' = lis
            /\ last' = [Op("write") EXCEPT !.type = "patient", !.subj = p]
    /\ UNCHANGED <<now, order, product, cfg, lisUp, run, jobs>>

\* SaleOrder.action_confirm
OrderConfirm(o, out) ==
    /\ run.kind = "idle"
    /\ Count
    /\ order[o].live
    /\ LET r == sync_test_order_to_openelis(St, now, o, order[o], out)
       IN /\ Commit(r.st)
          /\ Accept("test_order", o, r)
          /\ last' = [Op("sync") EXCEPT !.type = "test_order", !.subj = o,
                                        !.call = r.call, !.adm = r.adm,
                                        !.sent = r.sent,
                                        !.ok = Completed(r).res,
                                        !.raised = Completed(r).raised]
    /\ UNCHANGED <<now, partner, order, product, cfg, lisUp, run, jobs>>

\* ProductTemplate.write of a relevant field; data = 0 clears is_lab_test
ProductWrite(pr, data, out) ==
    /\ run.kind = "idle"
    /\ Count
    /\ product[pr].live
    /\ product' = [product EXCEPT ![pr].data = data]
    /\ IF data # 0
       THEN LET r == sync_lab_test_to_openelis(St, now, pr, product'[pr], out)
            IN /\ Commit(r.st)
               /\ Accept("lab_test", pr, r)
               /\ last' = [Op("sync") EXCEPT !.type = "lab_test", !.subj = pr,
                                             !.call = r.call, !.adm = r.adm,
                                             !.sent = r.sent,
                                             !.ok = Completed(r).res,
                                             !.raised = Completed(r).raised]
       ELSE /\ Commit(St)
            /\ lis' = lis
            /\ last' = [Op("write") EXCEPT !.type = "lab_test", !.subj = pr]
    /\ UNCHANGED <<now, partner, order, cfg, lisUp, run, jobs>>

----------------------------------------------------------------------------
(* Retries *)

\* action_retry on one row, also a row deleted since it was displayed
action_retry(id, out) ==
    /\ run.kind = "idle"
    /\ Count
    /\ id \in 1..(nextId - 1)
    /\ LET r == RetryOne(St, now, id, out)
       IN /\ Commit(r.st)
          /\ Accept(Row(St, id).event_type, RetrySubject(Row(St, id)), r)
          /\ last' = [Op("retry") EXCEPT !.id = id, !.call = r.call,
                                         !.ids = IF last.op = "mark_success"
                                                 THEN last.ids ELSE {},
                                         !.ok = r.ok, !.raised = r.raised,
                                         !.adm = r.adm, !.was = Row(St, id),
                                         !.sent = r.sent, !.trail = r.trail]
    /\ UNCHANGED <<now, partner, order, product, cfg, lisUp, run, jobs>>

\* cron_retry_failed_events up to the loop: the selection
Select ==
    /\ run.kind = "idle"
    /\ LET batch == events_to_retry(St, now)
           due == {i \in DOMAIN events : Due(events[i], now)}
       IN /\ run' = IF batch = <<>> THEN Idle
                    ELSE [Idle EXCEPT !.kind = "cron", !.batch = batch, !.i = 1]
          /\ last' = [Op("cron") EXCEPT !.cut = Cardinality(due) - Len(batch),
                                        !.total = Len(batch),
                                        !.done = (batch = <<>>)]
    /\ UNCHANGED <<now, partner, order, product, cfg, lisUp, events, nextId,
                   born, lis, jobs>>

CronStart == Count /\ Select

\* one turn of the loop of cron_retry_failed_events; the last turn ends
\* the cycle with its tally
CronStep(out) ==
    /\ run.kind = "cron"
    /\ LET id == run.batch[run.i]
           r == _retry_sync(St, now, id, out)
           n == run.success_count + (IF r.ok THEN 1 ELSE 0)
           done == run.i = Len(run.batch)
           log == Append(run.log, [id |-> id, call |-> r.call, ok |-> r.ok,
                                   was |-> Row(St, id)])
       IN /\ Commit(r.st)
          /\ Accept(Row(St, id).event_type, RetrySubject(Row(St, id)), r)
          /\ run' = IF done THEN Idle
                    ELSE [run EXCEPT !.i = @ + 1, !.success_count = n,
                                     !.log = log]
          /\ last' = [Op("attempt") EXCEPT !.id = id, !.call = r.call,
                                           !.ok = r.ok, !.raised = r.raised,
                                           !.adm = r.adm, !.was = Row(St, id),
                                           !.sent = r.sent, !.trail = r.trail,
                                           !.done = done,
                                           !.success_count = n,
                                           !.total = Len(run.batch),
                                           !.log = log]
    /\ UNCHANGED <<now, partner, order, product, cfg, lisUp, ops, jobs>>

----------------------------------------------------------------------------
(* Resolution by the operator *)

action_mark_success(S) ==
    /\ run.kind = "idle"
    /\ Count
    /\ S # {} /\ S \subseteq DOMAIN events
    /\ Commit(MarkSuccess(St, S))
    /\ last' = [Op("mark_success") EXCEPT !.ids = S]
    /\ UNCHANGED <<now, partner, order, product, cfg, lisUp, run, lis, jobs>>

action_delete(S) ==
    /\ run.kind = "idle"
    /\ Count
    /\ S # {} /\ S \subseteq DOMAIN events
    /\ Commit(Delete(St, S))
    /\ last' = [Op("delete") EXCEPT !.ids = S]
    /\ UNCHANGED <<now, partner, order, product, cfg, lisUp, run, lis, jobs>>

----------------------------------------------------------------------------
(* The environment *)

Advance ==
    /\ run.kind = "idle"
    /\ now' = now + BackoffMinutes
    /\ last' = Op("tick")
    /\ UNCHANGED <<partner, order, product, cfg, lisUp, events, nextId, run,
                   born, lis, jobs>>

Tick == Count /\ Advance

\* the records whose many2one points to the deleted row
Referring(ev, field, subj) == {i \in DOMAIN ev : ev[i][field] = subj}

\* a foreign key that leaves the referring records in place
CascadeKeep(st, S) == st

\* ondelete='cascade': the referring records go with the row
Cascade(st, S) == Unlink(st, S)

\* unlink of a patient: ondelete='cascade' of partner_id
PartnerUnlink(p) ==
    /\ run.kind = "idle"
    /\ Count
    /\ partner[p].live
    /\ partner' = [partner EXCEPT ![p].live = FALSE]
    /\ Commit(Cascade(St, Referring(events, "partner_id", p)))
    /\ last' = [Op("unlink") EXCEPT !.type = "patient", !.subj = p,
                                    !.ids = Referring(events, "partner_id", p)]
    /\ UNCHANGED <<now, order, product, cfg, lisUp, run, lis, jobs>>

\* unlink of a sale order: ondelete='cascade' of sale_order_id
OrderUnlink(o) ==
    /\ run.kind = "idle"
    /\ Count
    /\ order[o].live
    /\ order' = [order EXCEPT ![o].live = FALSE]
    /\ Commit(Cascade(St, Referring(events, "sale_order_id", o)))
    /\ last' = [Op("unlink") EXCEPT !.type = "test_order", !.subj = o,
                                    !.ids = Referring(events, "sale_order_id", o)]
    /\ UNCHANGED <<now, partner, product, cfg, lisUp, run, lis, jobs>>

----------------------------------------------------------------------------
(* Spec: the operations executed one at a time, in any order.  A patient   *)
(* write changes ref or leaves the row as it is (another field written).   *)

PartnerRows == [live : {TRUE}, ref : Refs \cup {NoRef}, data : {0}]

Next ==
    \/ \E p \in Partners, row \in PartnerRows, out \in OutcomesNow :
          PartnerWrite(p, row, out)
    \/ \E o \in Orders, out \in OutcomesNow : OrderConfirm(o, out)
    \/ \E pr \in Products, out \in OutcomesNow :
          ProductWrite(pr, product[pr].data, out)
    \/ \E id \in 1..(nextId - 1), out \in OutcomesNow : action_retry(id, out)
    \/ CronStart
    \/ \E out \in OutcomesNow : CronStep(out)
    \/ \E id \in DOMAIN events : action_mark_success({id})
    \/ \E id \in DOMAIN events : action_delete({id})
    \/ Tick
    \/ \E p \in Partners : PartnerUnlink(p)
    \/ \E o \in Orders : OrderUnlink(o)

Spec == Init /\ [][Next]_vars

----------------------------------------------------------------------------
(* Properties of the admission *)

Resting(e) == e.state \in Unresolved

\* the dedup key of two rows of one type is the same
SameKey(a, b) ==
    /\ a.event_type = b.event_type
    /\ IF a.event_type = "patient"
       THEN /\ a.partner_ref = b.partner_ref
            /\ a.partner_ref = NoRef => a.partner_id = b.partner_id
       ELSE a.sale_order_id = b.sale_order_id

\* C1: the store never holds two unresolved events of type patient or
\* test_order with the same dedup key (the patient reference, or the
\* patient id when there is no reference; the sale order).
C1_OneUnresolvedPerKey ==
    \A a, b \in DOMAIN events :
        (/\ a # b
         /\ Resting(events[a]) /\ Resting(events[b])
         /\ events[a].event_type \in {"patient", "test_order"})
        => ~SameKey(events[a], events[b])

\* an admission found the event of its key while the store holds others
C1_Witness ==
    /\ last.op = "sync"
    /\ last.adm.kind = "updated"
    /\ last.type \in {"patient", "test_order"}
    /\ Cardinality(DOMAIN events) >= 2

\* C2: an event keeps the sequence number it was created with, whatever
\* operation (admission-update, retry, cycle) touches it afterwards.
C2_SequenceNumberKept ==
    \A id \in DOMAIN events :
        events[id].sequence_number = born[id].sequence_number

\* an admission has updated an event that was retried before and that is
\* not the newest one
C2_Witness ==
    /\ last.op = "sync"
    /\ last.adm.kind = "updated"
    /\ last.adm.before.retry_count > 0
    /\ last.adm.id \in DOMAIN events
    /\ last.adm.id + 1 < nextId

\* the payload the first attempt of the last operation sent
SentPayload ==
    CASE last.type = "patient" -> PatientPayload(partner[last.subj])
      [] last.type = "test_order" -> OrderPayload(last.subj, order[last.subj])
      [] OTHER -> LabPayload(last.subj, product[last.subj])

\* C3: after an admission that found an unresolved event of its key, the
\* event holds the payload and the error of this admission, retry_count 0,
\* state pending, no last_retry_date and no next_retry_date, and is due.
C3_UpdateResets ==
    (last.op = "sync" /\ last.adm.kind = "updated") =>
        /\ last.adm.id \in DOMAIN events
        /\ LET e == events[last.adm.id]
           IN /\ e.payload = SentPayload
              /\ e.error_message = ErrorMessage(last.call)
              /\ e.error_type = ErrorType(last.call)
              /\ e.retry_count = 0
              /\ e.state = "pending"
              /\ e.last_retry_date = NoDate
              /\ e.next_retry_date = NoDate
              /\ Due(e, now)

\* the event found had another payload, had failed a retry and was not due
C3_Witness ==
    /\ last.op = "sync"
    /\ last.adm.kind = "updated"
    /\ last.adm.before.payload # SentPayload
    /\ last.adm.before.state = "failed"
    /\ last.adm.before.retry_count > 0
    /\ ~Due(last.adm.before, now)

----------------------------------------------------------------------------
(* Properties of the retry *)

Retried == last.op \in {"retry", "attempt"} /\ last.was # NoRow

\* C5 as stated: after a retry, manual or scheduled, whose delivery the
\* LIS accepted, the store does not hold the event, whatever its type.
C5_AcceptedRetryDeletes ==
    (Retried /\ last.call = "ok") => last.id \notin DOMAIN events

\* C9 as stated: a failed retry leaves retry_count one higher than it
\* found it, and next_retry_date that many backoff units after the attempt.
C9_RetryCountsFailures ==
    (Retried /\ ~last.ok /\ last.id \in DOMAIN events) =>
        /\ events[last.id].retry_count = last.was.retry_count + 1
        /\ events[last.id].next_retry_date =
              {now + BackoffMinutes * (last.was.retry_count + 1)}

----------------------------------------------------------------------------
(* Properties of the scheduled cycle *)

\* (sequence_number, create_date) of a is not after that of b
KeyBefore(a, b) ==
    \/ a.sequence_number < b.sequence_number
    \/ a.sequence_number = b.sequence_number /\ a.create_date <= b.create_date

\* C7: while a cycle runs, every step is the attempt of one event of the
\* batch; the events attempted before it in the cycle precede it in
\* (sequence_number, create_date) order and those still to come follow it.
C7_BatchInOrder ==
    [][run.kind = "cron" =>
          /\ last'.op = "attempt"
          /\ last'.id = run.batch[run.i]
          /\ \A k \in DOMAIN run.batch :
                /\ k < run.i => KeyBefore(born[run.batch[k]], born[last'.id])
                /\ k > run.i => KeyBefore(born[last'.id], born[run.batch[k]])
          /\ run'.kind = "cron" =>
                run'.batch = run.batch /\ run'.i = run.i + 1]_vars

\* a cycle has attempted at least two events and ended
C7_Witness ==
    /\ last.op = "attempt"
    /\ last.done
    /\ last.total >= 2

\* the rows a cycle may take at this moment
Eligible ==
    {i \in DOMAIN events :
        /\ events[i].state \in {"pending", "failed"}
        /\ \A d \in events[i].next_retry_date : d <= now}

\* C8: the batch a cycle selects holds only events in state pending or
\* failed whose next_retry_date is unset or not after now, at most
\* BatchLimit of them, and they are the first of the due events in
\* (sequence_number, create_date) order; every event a cycle attempts was
\* in state pending or failed and due when its attempt began.
C8_SelectsDue ==
    /\ last.op = "cron" =>
          LET picked == Range(run.batch)
          IN /\ picked \subseteq Eligible
             /\ Len(run.batch) <= BatchLimit
             /\ Cardinality(picked) = Len(run.batch)
             /\ \A i \in Eligible \ picked :
                   /\ Len(run.batch) = BatchLimit
                   /\ \A j \in picked : KeyBefore(events[j], events[i])
    /\ (last.op = "attempt" /\ last.was # NoRow) =>
          /\ last.was.state \in {"pending", "failed"}
          /\ \A d \in last.was.next_retry_date : d <= now

\* a selection left due events for the next cycle
C8_Witness ==
    /\ last.op = "cron"
    /\ last.cut > 0
    /\ Len(run.batch) = BatchLimit

----------------------------------------------------------------------------
(* FairSpec: the scheduler.  ir.cron starts cron_retry_failed_events       *)
(* again and again and a started cycle runs to its end; the clock          *)
(* advances; at some moment the LIS may start to accept every delivery.    *)
(* Only the business operations draw on the operation budget.              *)

Heal ==
    /\ run.kind = "idle"
    /\ ~lisUp
    /\ lisUp' = TRUE
    /\ last' = Op("heal")
    /\ UNCHANGED <<now, partner, order, product, cfg, events, nextId, run,
                   ops, born, lis, jobs>>

Cycle == ops' = ops /\ Select

Clock ==
    /\ now < MaxTicks * BackoffMinutes
    /\ ops' = ops
    /\ Advance

FairNext ==
    \/ \E p \in Partners, out \in OutcomesNow :
          ops < MaxFair /\ PartnerWrite(p, partner[p], out)
    \/ \E o \in Orders, out \in OutcomesNow :
          ops < MaxFair /\ OrderConfirm(o, out)
    \/ \E pr \in Products, out \in OutcomesNow :
          ops < MaxFair /\ ProductWrite(pr, product[pr].data, out)
    \/ Heal
    \/ Cycle
    \/ \E out \in OutcomesNow : CronStep(out)
    \/ Clock

FairSpec ==
    /\ Init
    /\ [][FairNext]_vars
    /\ WF_vars(Cycle)
    /\ WF_vars(\E out \in OutcomesNow : CronStep(out))
    /\ WF_vars(Clock)

PatientRetryKeepsEvent ==
    (Retried /\ last.was.event_type = "patient") => last.id \in DOMAIN events

\* and the events of the other types, once due, are delivered and removed
OthersEventuallyDelivered ==
    \A id \in 1..MaxFair :
        (/\ lisUp
         /\ id \in DOMAIN events
         /\ Due(events[id], now)
         /\ events[id].event_type # "patient")
            ~> (id \notin DOMAIN events)

----------------------------------------------------------------------------
(* The outcome of a cycle *)

\* the attempts of the cycle that has just ended
Ended == last.op = "attempt" /\ last.done

\* C11 as stated: when a cycle has ended, every batch event whose delivery
\* the LIS accepted is gone, every other batch event is stored in state
\* failed with retry_count one higher than its attempt found it, and the
\* tally counts the accepted deliveries as successes and the batch events
\* that remain as failures.
C11_CycleOutcome ==
    Ended =>
        LET log == last.log
            accepted == {k \in DOMAIN log : log[k].call = "ok"}
            kept == {k \in DOMAIN log : log[k].id \in DOMAIN events}
        IN /\ \A k \in accepted : k \notin kept
           /\ \A k \in DOMAIN log \ accepted :
                 /\ k \in kept
                 /\ events[log[k].id].state = "failed"
                 /\ events[log[k].id].retry_count =
                       log[k].was.retry_count + 1
           /\ last.success_count = Cardinality(accepted)
           /\ last.total - last.success_count = Cardinality(kept)

----------------------------------------------------------------------------
(* Failures and their events *)

\* event e records a failure of subject subj, whose body is payload: the
\* patient with this reference (with this id when it has no reference),
\* this sale order, this lab-test product
OfSubject(e, event_type, subj, payload) ==
    /\ e.event_type = event_type
    /\ CASE event_type = "patient" ->
                IF payload.ref # NoRef THEN e.partner_ref = payload.ref
                ELSE e.partner_id = subj
         [] event_type = "test_order" -> e.sale_order_id = subj
         [] OTHER -> e.payload.id = subj

\* C14 as stated: after a first attempt that failed (the LIS answered with
\* another status than 200, with an error body, or not at all), the store
\* holds an unresolved event of the subject.
C14_FailureQueued ==
    (last.op = "sync" /\ last.call \in {"rejected", "http", "conn"}) =>
        \E id \in DOMAIN events :
            /\ Resting(events[id])
            /\ OfSubject(events[id], last.type, last.subj, last.sent)

\* the type and the subject of the sync the last operation made
SyncType == IF last.op = "sync" THEN last.type ELSE last.was.event_type

SyncSubject ==
    IF last.op = "sync" THEN last.subj
    ELSE CASE last.was.event_type = "patient" -> last.was.partner_id
           [] last.was.event_type = "test_order" -> last.was.sale_order_id
           [] OTHER -> last.was.payload.id

\* C15 as stated: the event an admission updates is an event of the
\* subject that was synced (same type; same patient reference, same sale
\* order, same lab-test product).
C15_OwnSubjectOnly ==
    (last.adm.kind = "updated") =>
        OfSubject(last.adm.before, SyncType, SyncSubject, last.sent)

\* an event left the store in this step
Removed(id) == id \in DOMAIN events /\ id \notin DOMAIN events'

Allowed(a, b) ==
    \/ a \in {"pending", "failed"} /\ b = "retrying"
    \/ a = "retrying" /\ b \in {"failed", "success"}
    \/ a \in Unresolved /\ b = "pending"

\* C17 as stated: the states a retry writes to its event, one after the
\* other, are each an allowed change: pending or failed to retrying,
\* retrying to failed or success, or an admission-update to pending; failed
\* is entered from retrying only.
C17_Transitions ==
    Retried =>
        LET path == <<last.was.state>> \o last.trail
        IN \A k \in 1..(Len(path) - 1) : Allowed(path[k], path[k + 1])

----------------------------------------------------------------------------
(* DataSpec: the operations of Spec where a write also changes the data   *)
(* of the record, so that a stored payload can be older than its record.  *)

PatientData == {0, 1}
LabData == {1, 2}

\* DataSpec starts at most this many operations
MaxData == 3

DataNext ==
    \/ \E p \in Partners, d \in PatientData, out \in OutcomesNow :
          ops < MaxData /\ PartnerWrite(p, [partner[p] EXCEPT !.data = d], out)
    \/ \E o \in Orders, out \in OutcomesNow :
          ops < MaxData /\ OrderConfirm(o, out)
    \/ \E pr \in Products, d \in LabData, out \in OutcomesNow :
          ops < MaxData /\ ProductWrite(pr, d, out)
    \/ \E id \in 1..(nextId - 1), out \in OutcomesNow :
          ops < MaxData /\ action_retry(id, out)
    \/ ops < MaxData /\ CronStart
    \/ \E out \in OutcomesNow : CronStep(out)
    \/ \E id \in DOMAIN events : ops < MaxData /\ action_delete({id})

DataSpec == Init /\ [][DataNext]_vars

\* the body a sync of the record would post now
CurrentPayload(event_type, subj) ==
    CASE event_type = "patient" -> PatientPayload(partner[subj])
      [] event_type = "test_order" -> OrderPayload(subj, order[subj])
      [] OTHER -> LabPayload(subj, product[subj])

Synced ==
    {<<"patient", p>> : p \in {q \in Partners : partner[q].live /\ partner[q].ref # NoRef}}
    \cup {<<"test_order", o>> : o \in {q \in Orders : order[q].live /\ order[q].lines # 0}}
    \cup {<<"lab_test", pr>> : pr \in {q \in Products : product[q].live /\ product[q].data # 0}}

----------------------------------------------------------------------------
(* ConcSpec: two server processes side by side.  A process runs a cycle,  *)
(* a manual retry or the confirmation of a sale order; the processes      *)
(* interleave at the POST of _retry_sync and between the read and the     *)
(* create of create_or_update_failed_event.  The code takes no lock.      *)

\* action_retry by worker w
StartRetry(w, id) ==
    /\ jobs[w].kind = "none"
    /\ Count
    /\ id \in DOMAIN events
    /\ jobs' = [jobs EXCEPT ![w] = [NoJob EXCEPT !.kind = "retry",
                                                 !.batch = <<id>>, !.i = 1,
                                                 !.phase = "enter"]]
    /\ last' = [Op("start") EXCEPT !.w = w, !.kind = "retry", !.id = id]
    /\ UNCHANGED <<now, partner, order, product, cfg, lisUp, events, nextId,
                   run, born, lis>>

\* cron_retry_failed_events by worker w, up to the loop
StartCycle(w) ==
    /\ jobs[w].kind = "none"
    /\ Count
    /\ LET batch == events_to_retry(St, now)
       IN /\ jobs' = [jobs EXCEPT ![w] =
                        IF batch = <<>> THEN NoJob
                        ELSE [NoJob EXCEPT !.kind = "cron", !.batch = batch,
                                           !.i = 1, !.phase = "enter"]]
          /\ last' = [Op("start") EXCEPT !.w = w, !.kind = "cron",
                                         !.total = Len(batch),
                                         !.done = (batch = <<>>)]
    /\ UNCHANGED <<now, partner, order, product, cfg, lisUp, events, nextId,
                   run, born, lis>>

\* a cycle that stops at the first event that is not delivered
NextJobAbort(job, ok, entry) ==
    IF job.i = Len(job.batch) \/ ~ok THEN NoJob
    ELSE [job EXCEPT !.i = @ + 1, !.phase = "enter",
                     !.success_count = @ + (IF ok THEN 1 ELSE 0),
                     !.log = Append(@, entry), !.row = NoRow]

\* the loop of the cycle after one event, whatever _retry_sync returned or
\* raised; a manual retry has one event
NextJob(job, ok, entry) ==
    IF job.i = Len(job.batch) THEN NoJob
    ELSE [job EXCEPT !.i = @ + 1, !.phase = "enter",
                     !.success_count = @ + (IF ok THEN 1 ELSE 0),
                     !.log = Append(@, entry), !.row = NoRow]

\* _retry_sync up to its first write
RetryEnter(w) ==
    /\ jobs[w].phase = "enter"
    /\ LET job == jobs[w]
           id == job.batch[job.i]
           r == _retry_sync(St, now, id, "ok")
           entry == [id |-> id, call |-> NoCall, ok |-> r.ok, was |-> Row(St, id)]
       IN IF id \notin DOMAIN events \/ events[id].state = "success"
          THEN /\ jobs' = [jobs EXCEPT ![w] = NextJob(job, r.ok, entry)]
               /\ Commit(St)
               /\ last' = [Op("enter") EXCEPT
                              !.w = w, !.kind = job.kind, !.id = id,
                              !.ok = r.ok, !.raised = r.raised,
                              !.done = (job.i = Len(job.batch)),
                              !.total = Len(job.batch),
                              !.log = Append(job.log, entry)]
          ELSE /\ Commit(Put(St, MarkRetrying(events[id], now)))
               /\ jobs' = [jobs EXCEPT ![w].phase = "deliver",
                                       ![w].row = MarkRetrying(events[id], now)]
               /\ last' = [Op("enter") EXCEPT
                              !.w = w, !.kind = job.kind, !.id = id,
                              !.was = events[id], !.trail = <<"retrying">>,
                              !.total = Len(job.batch), !.log = job.log]
    /\ UNCHANGED <<now, partner, order, product, cfg, lisUp, run, ops, lis>>

\* _retry_sync from the try block to its end
RetryDeliver(w, out) ==
    /\ jobs[w].phase = "deliver"
    /\ LET job == jobs[w]
           id == job.batch[job.i]
           e == IF id \in DOMAIN events THEN events[id] ELSE job.row
           r == _retry_tail(St, now, e, out)
           entry == [id |-> id, call |-> r.call, ok |-> r.ok, was |-> job.row]
       IN /\ Commit(r.st)
          /\ Accept(e.event_type, RetrySubject(e), r)
          /\ jobs' = [jobs EXCEPT ![w] = NextJob(job, r.ok, entry)]
          /\ last' = [Op("deliver") EXCEPT
                         !.w = w, !.kind = job.kind, !.id = id,
                         !.call = r.call, !.ok = r.ok, !.raised = r.raised,
                         !.adm = r.adm, !.was = job.row, !.sent = r.sent,
                         !.trail = r.trail, !.message = r.message,
                         !.done = (job.i = Len(job.batch)),
                         !.total = Len(job.batch),
                         !.log = Append(job.log, entry)]
    /\ UNCHANGED <<now, partner, order, product, cfg, lisUp, run, ops>>

\* SaleOrder.action_confirm by worker w while the LIS is down: the sync up
\* to the vals of the new event, or to the update of the event found
ConfirmFails(w, o) ==
    /\ jobs[w].kind = "none"
    /\ Count
    /\ order[o].live /\ cfg.sync /\ cfg.url /\ order[o].lines # 0
    /\ LET payload == OrderPayload(o, order[o])
           found == Existing(St, "test_order", NoId, NoRef, o)
       IN IF found # {}
          THEN /\ Commit(create_or_update_failed_event(
                            St, now, "test_order", payload,
                            ErrorMessage("http"), ErrorType("http"),
                            NoId, NoRef, o))
               /\ jobs' = jobs
          ELSE /\ Commit(St)
               /\ jobs' = [jobs EXCEPT ![w] =
                             [NoJob EXCEPT
                                 !.kind = "admit",
                                 !.vals = CreateVals(
                                             St, now, "test_order", payload,
                                             ErrorMessage("http"),
                                             ErrorType("http"), NoId, NoRef, o)]]
    /\ last' = [Op("sync") EXCEPT !.w = w, !.type = "test_order", !.subj = o,
                                  !.call = "http",
                                  !.sent = OrderPayload(o, order[o])]
    /\ UNCHANGED <<now, partner, order, product, cfg, lisUp, run, lis>>

\* self.create(vals): the row takes the next database id
AdmitCreate(w) ==
    /\ jobs[w].kind = "admit"
    /\ Commit([Put(St, [jobs[w].vals EXCEPT !.id = nextId])
               EXCEPT !.nid = nextId + 1])
    /\ jobs' = [jobs EXCEPT ![w] = NoJob]
    /\ last' = [Op("create") EXCEPT !.w = w, !.id = nextId]
    /\ UNCHANGED <<now, partner, order, product, cfg, lisUp, run, ops, lis>>

ConcNext ==
    \/ \E w \in Workers, id \in DOMAIN events : StartRetry(w, id)
    \/ \E w \in Workers : StartCycle(w)
    \/ \E w \in Workers : RetryEnter(w)
    \/ \E w \in Workers, out \in OutcomesNow : RetryDeliver(w, out)
    \/ \E w \in Workers, o \in Orders : ConfirmFails(w, o)
    \/ \E w \in Workers : AdmitCreate(w)

ConcSpec == Init /\ [][ConcNext]_vars

\* the event worker w is about to deliver
Delivering(w) ==
    IF jobs[w].phase = "deliver" THEN jobs[w].batch[jobs[w].i] ELSE NoId

\* the worker's step ended its work on one event of a cycle
Finished ==
    /\ last.kind = "cron"
    /\ last.op = "deliver" \/ (last.op = "enter" /\ last.trail = <<>>)

C18_NoDoubleDelivery ==
    \A w1, w2 \in Workers :
        (/\ w1 # w2
         /\ Delivering(w1) # NoId
         /\ "retry" \in {jobs[w1].kind, jobs[w2].kind})
        => Delivering(w1) # Delivering(w2)

\* C19 as stated: two cycles never attempt the same event at once.
C19_SingleFlight ==
    \A w1, w2 \in Workers :
        (/\ w1 # w2
         /\ Delivering(w1) # NoId
         /\ jobs[w1].kind = "cron" /\ jobs[w2].kind = "cron")
        => Delivering(w1) # Delivering(w2)

\* C20 as stated: the events of two different sale orders never carry the
\* same sequence number.
C20_DistinctNumbers ==
    \A a, b \in DOMAIN events :
        events[a].sale_order_id # events[b].sale_order_id
        => events[a].sequence_number # events[b].sequence_number

\* C21 as stated: admissions of the same sale order that run side by side
\* never leave two unresolved events of that sale order in the store.
C21_AtomicAdmission ==
    \A o \in Orders :
        Cardinality({i \in DOMAIN events :
                        /\ events[i].event_type = "test_order"
                        /\ events[i].state \in Unresolved
                        /\ events[i].sale_order_id = o}) <= 1

\* the rows other than those of S are as they were
OthersKept(S) ==
    /\ DOMAIN events' = DOMAIN events \ S
    /\ \A i \in DOMAIN events' : events'[i] = events[i]

\* C22: action_mark_success removes the selected events and nothing is
\* delivered; a retry of an event that is no longer stored ends in an error
\* (MissingError), posts nothing and leaves the store as it is.
C22_MarkSuccessThenRetry ==
    [][/\ last'.op = "mark_success" =>
            /\ OthersKept(last'.ids)
            /\ last'.call = NoCall /\ lis' = lis
       /\ (last'.op = "retry" /\ last'.id \notin DOMAIN events) =>
            /\ last'.raised /\ ~last'.ok
            /\ last'.call = NoCall /\ lis' = lis
            /\ events' = events /\ nextId' = nextId]_vars

\* a retry of the event the operator has just marked as success
C22_Witness ==
    /\ last.op = "retry"
    /\ last.id \in last.ids
    /\ last.raised

\* C23: action_delete removes the selected events and no other, posts
\* nothing, and leaves every other event as it was, its sequence number
\* included.
C23_DeleteOnlySelected ==
    [][last'.op = "delete" =>
          /\ OthersKept(last'.ids)
          /\ last'.ids \subseteq DOMAIN events
          /\ last'.call = NoCall /\ lis' = lis
          /\ nextId' = nextId]_vars

\* a delete of an event that leaves behind an event with a higher number
C23_Witness ==
    /\ last.op = "delete"
    /\ \E i \in DOMAIN events, d \in last.ids :
          d \in DOMAIN born /\ born[d].sequence_number < events[i].sequence_number

\* two retries ended alike
SameResult(a, b) ==
    /\ a.st = b.st
    /\ a.ok = b.ok /\ a.raised = b.raised
    /\ a.call = b.call /\ a.sent = b.sent

\* the retry r of a row of store st was refused
Refused(st, r) ==
    /\ r.raised /\ ~r.ok
    /\ r.call = NoCall
    /\ r.st = st

----------------------------------------------------------------------------
(* BatchSpec: action_retry_selected on a selection of the list view, which *)
(* may hold a row deleted since it was displayed.                          *)

\* the key of self.sorted: (sequence_number or 0, create_date)
KeyLess(a, b) ==
    \/ a.sequence_number < b.sequence_number
    \/ a.sequence_number = b.sequence_number /\ a.create_date < b.create_date

\* position of the first record of sel that no other record is before
Lowest(ev, sel) ==
    CHOOSE k \in DOMAIN sel :
        /\ \A j \in DOMAIN sel : ~KeyLess(ev[sel[j]], ev[sel[k]])
        /\ \A j \in 1..(k - 1) : KeyLess(ev[sel[k]], ev[sel[j]])

Without(sel, k) == SubSeq(sel, 1, k - 1) \o SubSeq(sel, k + 1, Len(sel))

\* self.sorted(key): a stable sort of the records as selected
RECURSIVE sorted(_, _)
sorted(ev, sel) ==
    IF sel = <<>> THEN <<>>
    ELSE <<sel[Lowest(ev, sel)]>> \o sorted(ev, Without(sel, Lowest(ev, sel)))

\* the selections: one or two different rows that were displayed
Selections ==
    {<<a>> : a \in 1..(nextId - 1)}
    \cup ({<<a, b>> : a, b \in 1..(nextId - 1)}
             \ {<<a, a>> : a \in 1..(nextId - 1)})

\* action_retry_selected up to its loop; the key of the sort reads the
\* fields of every selected record, which raises MissingError on a deleted
\* one
BatchStart(sel) ==
    /\ run.kind = "idle"
    /\ Count
    /\ sel \in Selections
    /\ IF Range(sel) \subseteq DOMAIN events
       THEN /\ run' = [Idle EXCEPT !.kind = "batch",
                                   !.batch = sorted(events, sel), !.i = 1]
            /\ last' = [Op("batch") EXCEPT !.sel = sel, !.ids = Range(sel),
                                           !.total = Len(sel)]
       ELSE /\ run' = Idle
            /\ last' = [Op("batch") EXCEPT !.sel = sel, !.ids = Range(sel),
                                           !.total = Len(sel),
                                           !.raised = TRUE, !.done = TRUE]
    /\ UNCHANGED <<now, partner, order, product, cfg, lisUp, events, nextId,
                   born, lis, jobs>>

\* one turn of the loop of action_retry_selected
BatchStep(out) ==
    /\ run.kind = "batch"
    /\ LET id == run.batch[run.i]
           r == RetryOne(St, now, id, out)
           done == run.i = Len(run.batch)
           log == Append(run.log, [id |-> id, call |-> r.call, ok |-> r.ok,
                                   was |-> Row(St, id)])
       IN /\ Commit(r.st)
          /\ Accept(Row(St, id).event_type, RetrySubject(Row(St, id)), r)
          /\ run' = IF done THEN Idle
                    ELSE [run EXCEPT !.i = @ + 1, !.log = log]
          /\ last' = [Op("batch_attempt") EXCEPT
                         !.id = id, !.call = r.call, !.ok = r.ok,
                         !.raised = r.raised, !.adm = r.adm,
                         !.was = Row(St, id), !.sent = r.sent,
                         !.trail = r.trail, !.done = done,
                         !.total = Len(run.batch), !.log = log,
                         !.ids = Range(run.batch), !.sel = last.sel]
    /\ UNCHANGED <<now, partner, order, product, cfg, lisUp, ops, jobs>>

BatchNext ==
    \/ \E p \in Partners, out \in OutcomesNow : PartnerWrite(p, partner[p], out)
    \/ \E o \in Orders, out \in OutcomesNow : OrderConfirm(o, out)
    \/ \E pr \in Products, out \in OutcomesNow :
          ProductWrite(pr, product[pr].data, out)
    \/ \E id \in DOMAIN events : action_delete({id})
    \/ \E sel \in Selections : BatchStart(sel)
    \/ \E out \in OutcomesNow : BatchStep(out)

BatchSpec == Init /\ [][BatchNext]_vars

\* the batch retry has ended
BatchEnded == last.op \in {"batch", "batch_attempt"} /\ last.done

\* C25 as stated: the events of a batch retry are attempted in ascending
\* (sequence_number, create_date) order, and when the batch retry has ended
\* no selected event is left in the store without having been attempted.
C25_BatchAttemptsAll ==
    BatchEnded =>
        /\ \A j, k \in DOMAIN last.log :
              j < k => ~KeyLess(last.log[k].was, last.log[j].was)
        /\ \A id \in last.ids \cap DOMAIN events :
              \E k \in DOMAIN last.log : last.log[k].id = id

----------------------------------------------------------------------------
(* MissingSpec: lab tests whose product is deleted while an event of it is *)
(* stored.  A lab_test event holds the product id in its payload only, so  *)
(* no cascade removes it.                                                  *)

\* unlink of a product: no field of the event refers to product.template
ProductUnlink(pr) ==
    /\ run.kind = "idle"
    /\ Count
    /\ product[pr].live
    /\ product' = [product EXCEPT ![pr].live = FALSE]
    /\ Commit(St)
    /\ last' = [Op("unlink") EXCEPT !.type = "lab_test", !.subj = pr]
    /\ UNCHANGED <<now, partner, order, cfg, lisUp, run, lis, jobs>>

MissingNext ==
    \/ \E pr \in Products, out \in OutcomesNow :
          ProductWrite(pr, product[pr].data, out)
    \/ \E pr \in Products : ProductUnlink(pr)
    \/ \E id \in DOMAIN events, out \in OutcomesNow : action_retry(id, out)
    \/ CronStart
    \/ \E out \in OutcomesNow : CronStep(out)
    \/ Tick

MissingSpec == Init /\ [][MissingNext]_vars

\* the messages of the exceptions _retry_sync raises for a missing subject
SubjectMissing ==
    {"Partner not found for this event.",
     "Sale order not found for this event.",
     "Product not found"}

\* C26 as stated: an event whose last retry found its subject missing is
\* not scheduled for another retry: it has no next_retry_date and is in no
\* state the scheduled cycle selects.
C26_MissingSubjectTerminal ==
    \A i \in DOMAIN events :
        events[i].error_message \in SubjectMissing =>
            /\ events[i].state \notin {"pending", "failed"}
            /\ events[i].next_retry_date = NoDate

----------------------------------------------------------------------------
\* C27 as stated: after a retry whose POST the LIS answered with an HTTP
\* error, the event holds the error_type and the error_message that a
\* first attempt with the same answer records.
C27_RetryErrorKind ==
    (last.op = "retry" /\ ~last.ok /\ last.call = "http"
         /\ last.id \in DOMAIN events) =>
        /\ events[last.id].error_type = ErrorType(last.call)
        /\ events[last.id].error_message = ErrorMessage(last.call)

----------------------------------------------------------------------------
(* GuardSpec: create and write called on the model from outside the        *)
(* module, through the ORM or the RPC interface.  The context of a call is *)
(* an argument of the call.                                                *)

\* the context flags a call may carry
Contexts == SUBSET {"allow_system_create", "allow_system_write"}

\* OpenELISFailedEvent.create: [st, raised]
create(st, vals, context) ==
    IF "allow_system_create" \notin context
    THEN [st |-> st, raised |-> TRUE]
    ELSE [st |-> [Put(st, vals) EXCEPT !.nid = st.nid + 1], raised |-> FALSE]

\* OpenELISFailedEvent.write on one record: [st, raised]
write(st, id, vals, context) ==
    IF "allow_system_write" \notin context
    THEN [st |-> st, raised |-> TRUE]
    ELSE [st |-> Put(st, [f \in DOMAIN st.ev[id] |->
                             IF f \in DOMAIN vals THEN vals[f]
                             ELSE st.ev[id][f]]),
          raised |-> FALSE]

\* the values of a create from outside: a test_order event of order o;
\* sequence_number is left to its default
OutsideVals(st, t, o) ==
    [CreateVals(st, t, "test_order", OrderPayload(o, order[o]), "manual",
                "manual", NoId, NoRef, o)
     EXCEPT !.sequence_number = 0]

\* the values of a write from outside
OutsideWrites ==
    {[state |-> "success"], [state |-> "pending"], [sequence_number |-> 0],
     [retry_count |-> 0]}

\* create called from outside the module
OutsideCreate(o, context) ==
    /\ run.kind = "idle"
    /\ Count
    /\ order[o].live
    /\ LET r == create(St, OutsideVals(St, now, o), context)
       IN /\ Commit(r.st)
          /\ last' = [Op("create") EXCEPT !.type = "test_order", !.subj = o,
                                          !.raised = r.raised]
    /\ UNCHANGED <<now, partner, order, product, cfg, lisUp, run, lis, jobs>>

\* write called from outside the module
OutsideWrite(id, vals, context) ==
    /\ run.kind = "idle"
    /\ Count
    /\ id \in DOMAIN events
    /\ LET r == write(St, id, vals, context)
       IN /\ Commit(r.st)
          /\ last' = [Op("write") EXCEPT !.type = "event", !.id = id,
                                         !.raised = r.raised,
                                         !.was = events[id]]
    /\ UNCHANGED <<now, partner, order, product, cfg, lisUp, run, lis, jobs>>

GuardNext ==
    \/ \E o \in Orders, out \in OutcomesNow : OrderConfirm(o, out)
    \/ \E id \in DOMAIN events, out \in OutcomesNow : action_retry(id, out)
    \/ \E id \in DOMAIN events : action_mark_success({id})
    \/ \E o \in Orders, context \in Contexts : OutsideCreate(o, context)
    \/ \E id \in DOMAIN events, vals \in OutsideWrites, context \in Contexts :
          OutsideWrite(id, vals, context)

GuardSpec == Init /\ [][GuardNext]_vars

\* C28 as stated: a create or a write of an event from outside the
\* admission, the retry and the mark-success raises an error and leaves
\* the store as it was.
C28_OutsideRejected ==
    [][(last'.op = "create" \/ (last'.op = "write" /\ last'.type = "event"))
          => (last'.raised /\ events' = events /\ nextId' = nextId)]_vars

----------------------------------------------------------------------------
\* no stored event refers to a deleted patient or a deleted sale order
NoDangling ==
    \A i \in DOMAIN events :
        /\ events[i].partner_id # NoId => partner[events[i].partner_id].live
        /\ events[i].sale_order_id # NoId =>
               order[events[i].sale_order_id].live

\* C29: the unlink of a patient or of a sale order removes the events that
\* refer to it and leaves every other event as it was, and after every step
\* no stored event refers to a deleted patient or sale order.
C29_CascadeDelete ==
    [][/\ (last'.op = "unlink" /\ last'.type \in {"patient", "test_order"}) =>
             /\ OthersKept(last'.ids)
             /\ last'.ids = Referring(events,
                               IF last'.type = "patient" THEN "partner_id"
                               ELSE "sale_order_id", last'.subj)
       /\ NoDangling']_vars

\* an unlink has removed an event and another event is left
C29_Witness ==
    /\ last.op = "unlink"
    /\ last.ids # {}
    /\ DOMAIN events # {}

----------------------------------------------------------------------------
----------------------------------------------------------------------------
\* C31: whenever no operation is in progress, every stored event is in
\* state pending or failed: none is left in state retrying or success.
C31_RestingStates ==
    run.kind = "idle" =>
        \A i \in DOMAIN events : events[i].state \in {"pending", "failed"}

\* after a retry that failed, with its event failed and another pending
C31_Witness ==
    /\ run.kind = "idle"
    /\ last.op = "retry" /\ ~last.ok /\ "retrying" \in Range(last.trail)
    /\ \E a, b \in DOMAIN events :
          events[a].state = "failed" /\ events[b].state = "pending"

----------------------------------------------------------------------------
\* the fields a retry writes, equal in the two rows
SameRetryFields(a, b) ==
    /\ a.payload = b.payload
    /\ a.state = b.state
    /\ a.retry_count = b.retry_count
    /\ a.last_retry_date = b.last_retry_date
    /\ a.next_retry_date = b.next_retry_date

\* C32 as stated: a manual retry of one event leaves every other stored
\* event in the store with its payload, state, retry_count,
\* last_retry_date and next_retry_date as they were.
C32_RetryChangesOneEvent ==
    [][last'.op = "retry" =>
          \A i \in DOMAIN events \ {last'.id} :
              /\ i \in DOMAIN events'
              /\ SameRetryFields(events'[i], events[i])]_vars

----------------------------------------------------------------------------
(* PeriodSpec: the scheduler run period after period, without an end.     *)
(* The code reads the dates of an event only to compare next_retry_date    *)
(* with the present time, so the passing of one period is modelled by     *)
(* moving every stored date one period into the past while the present    *)
(* stays at 0; a date further back than one period is kept at one period  *)
(* back, which no comparison of the code tells apart.                      *)

\* the period of the ir.cron record, in backoff units
PeriodUnits == 2

CronInterval == PeriodUnits * BackoffMinutes

\* PeriodSpec executes at most this many business operations: one event
\* more than a batch holds
MaxPeriodOps == 3

\* a date one period later
Earlier(d) == Max(d - CronInterval, 0 - CronInterval)

\* the store one period later
Aged(e) ==
    [e EXCEPT !.create_date = Earlier(@),
              !.next_retry_date = {Earlier(d) : d \in @},
              !.last_retry_date = {Earlier(d) : d \in @}]

\* one period of the ir.cron record passes
Period ==
    /\ run.kind = "idle"
    /\ events' = [i \in DOMAIN events |-> Aged(events[i])]
    /\ last' = Op("tick")
    /\ UNCHANGED <<now, partner, order, product, cfg, lisUp, nextId, run,
                   ops, born, lis, jobs>>

\* the answers of the LIS in PeriodSpec: it is down, so that the events
\* with the smaller sequence numbers keep failing
Down == {"http"}

PeriodNext ==
    \/ \E p \in Partners, out \in Down :
          ops < MaxPeriodOps /\ PartnerWrite(p, partner[p], out)
    \/ \E o \in Orders, out \in Down :
          ops < MaxPeriodOps /\ OrderConfirm(o, out)
    \/ \E pr \in Products, out \in Down :
          ops < MaxPeriodOps /\ ProductWrite(pr, product[pr].data, out)
    \/ Cycle
    \/ \E out \in Down : CronStep(out)
    \/ Period

\* the loop of a running cycle goes on to its next event or ends: what a
\* turn of CronStep does to the position of the cycle, whatever its attempt
\* does to the store
Turn ==
    /\ run.kind = "cron"
    /\ run' \in {Idle} \cup
          {[run EXCEPT !.i = @ + 1, !.success_count = n,
                       !.log = Append(@, [id |-> run.batch[run.i], call |-> c,
                                          ok |-> k,
                                          was |-> Row(St, run.batch[run.i])])] :
              n \in {run.success_count, run.success_count + 1},
              c \in Answers \cup {NoCall}, k \in BOOLEAN}

\* a cycle is started again and again, a started cycle takes its turns to
\* the end, and the periods pass
PeriodSpec ==
    /\ Init
    /\ [][PeriodNext]_vars
    /\ WF_vars(Cycle)
    /\ WF_run(Turn)
    /\ WF_vars(Period)

\* C33 as stated: with the cycles run period after period, every stored
\* event is eventually attempted by a cycle (or leaves the store).
C33_NoStarvation ==
    \A id \in 1..MaxPeriodOps :
        (id \in DOMAIN events) ~>
            \/ id \notin DOMAIN events
            \/ last.op = "attempt" /\ last.id = id

----------------------------------------------------------------------------
\* the events the step has created
Created == DOMAIN events' \ DOMAIN events

\* among the stored events the order of the sequence numbers is the order
\* of creation (the ids) and of the create dates, and no number occurs twice
FifoIsCreationOrder ==
    \A a, b \in DOMAIN events :
        /\ a # b => events[a].sequence_number # events[b].sequence_number
        /\ a < b => events[a].sequence_number < events[b].sequence_number
        /\ events[a].sequence_number < events[b].sequence_number =>
               events[a].create_date <= events[b].create_date

\* C34: with the operations executed one at a time, a created event has a
\* larger sequence number than every event stored when it was created, no
\* step changes the sequence number of a stored event, and the stored
\* events have distinct sequence numbers in the order of their creation.
C34_SequenceIsCreationOrder ==
    [][/\ \A c \in Created : \A i \in DOMAIN events :
             events'[c].sequence_number > events[i].sequence_number
       /\ \A i \in DOMAIN events \cap DOMAIN events' :
             events'[i].sequence_number = events[i].sequence_number
       /\ FifoIsCreationOrder']_vars

\* an event created, at a later time, next to an older one
C34_Witness ==
    /\ last.op = "sync" /\ last.adm.kind = "created"
    /\ \E a \in DOMAIN events :
          /\ last.adm.id \in DOMAIN events
          /\ a < last.adm.id
          /\ events[a].create_date < events[last.adm.id].create_date

----------------------------------------------------------------------------
\* C35: a first attempt that the LIS accepts leaves the store as it was,
\* and an event leaves the store only in a retry of it that succeeds, a
\* mark-success, a delete or the cascade of its subject's unlink.
C35_AcceptedSyncKeepsEvent ==
    [][/\ (last'.op = "sync" /\ last'.call = "ok") =>
             (events' = events /\ nextId' = nextId)
       /\ \A i \in DOMAIN events \ DOMAIN events' :
             \/ last'.op \in {"retry", "attempt"} /\ last'.id = i /\ last'.ok
             \/ last'.op \in {"mark_success", "delete", "unlink"}
                   /\ i \in last'.ids]_vars

\* a sale order with a stored unresolved event is confirmed again and the
\* LIS accepts the order
C35_Witness ==
    /\ last.op = "sync" /\ last.call = "ok" /\ last.type = "test_order"
    /\ \E i \in DOMAIN events :
          /\ events[i].event_type = "test_order"
          /\ events[i].sale_order_id = last.subj
          /\ events[i].state \in Unresolved

----------------------------------------------------------------------------
(* ConfigSpec: the settings are written between the operations.  The       *)
(* fields of res.config.settings are stored as config parameters, which    *)
(* every sync reads when it runs.                                          *)

Settings == {"sync", "patient", "url"}

\* ResConfigSettings: one of the three parameters is set
SettingsWrite(field, value) ==
    /\ run.kind = "idle"
    /\ Count
    /\ cfg[field] # value
    /\ cfg' = [cfg EXCEPT ![field] = value]
    /\ last' = [Op("settings") EXCEPT !.kind = field]
    /\ UNCHANGED <<now, partner, order, product, lisUp, events, nextId, run,
                   born, lis, jobs>>

ConfigNext ==
    \/ \E p \in Partners, out \in OutcomesNow :
          PartnerWrite(p, partner[p], out)
    \/ \E o \in Orders, out \in OutcomesNow : OrderConfirm(o, out)
    \/ \E pr \in Products, out \in OutcomesNow :
          ProductWrite(pr, product[pr].data, out)
    \/ \E id \in DOMAIN events, out \in OutcomesNow : action_retry(id, out)
    \/ \E field \in Settings, value \in BOOLEAN : SettingsWrite(field, value)
    \/ Tick

ConfigSpec == Init /\ [][ConfigNext]_vars

\* C36: while sync is disabled, a retry of a test_order or lab_test event
\* posts nothing and ends as a failure (the event stays, in state failed,
\* with retry_count one higher and a next_retry_date), and a first-attempt
\* sync of an order or a product posts nothing and creates no event.
C36_DisabledSyncSkipped ==
    [][~cfg'.sync =>
         /\ (/\ last'.op = "retry"
             /\ last'.was # NoRow
             /\ last'.was.event_type \in {"test_order", "lab_test"})
                => /\ last'.call = NoCall
                   /\ lis' = lis
                   /\ ~last'.ok
                   /\ last'.id \in DOMAIN events'
                   /\ events'[last'.id].state = "failed"
                   /\ events'[last'.id].retry_count =
                          last'.was.retry_count + 1
                   /\ events'[last'.id].next_retry_date # NoDate
         /\ (last'.op = "sync" /\ last'.type \in {"test_order", "lab_test"})
                => /\ last'.call = NoCall
                   /\ lis' = lis
                   /\ events' = events
                   /\ nextId' = nextId]_vars

\* a retry and a first attempt have run with sync disabled
C36_Witness ==
    /\ ~cfg.sync
    /\ last.op = "sync"
    /\ last.type = "test_order"
    /\ \E i \in DOMAIN events :
          /\ events[i].event_type = "test_order"
          /\ events[i].state = "failed"
          /\ events[i].retry_count = 1
          /\ events[i].error_message = "Retry failed: OpenELIS sync is disabled"

----------------------------------------------------------------------------
\* C37 as stated: a manual retry of a stored event that is not yet due
\* posts to the LIS at once, and when it fails the event is left with
\* retry_count one higher and a next_retry_date.
C37_ManualRetryIgnoresBackoff ==
    [][(/\ last'.op = "retry"
        /\ last'.was # NoRow
        /\ ~Due(last'.was, now))
          => /\ last'.call # NoCall
             /\ ~last'.ok =>
                   /\ last'.id \in DOMAIN events'
                   /\ events'[last'.id].retry_count =
                          last'.was.retry_count + 1
                   /\ events'[last'.id].next_retry_date # NoDate]_vars

====
